---- MODULE Spec2Model ----
(***************************************************************************)
(* G1OJS_Tiny_Si5351_CLK0: a model of set_freq_Hz and I2CFlexiWrite.       *)
(*                                                                         *)
(* TLC's integers are 32-bit signed, so the uint32_t and double values of  *)
(* the calculation are carried as naturals of unbounded size ("Big": a     *)
(* little-endian sequence of limbs below BASE, without leading zero limbs; *)
(* zero is the empty sequence).  uint32_t arithmetic is that arithmetic    *)
(* reduced modulo 2^32; double arithmetic is that arithmetic rounded to    *)
(* nearest, ties to even, at the mantissa width of the build.              *)
(***************************************************************************)
EXTENDS Integers, Sequences, FiniteSets, TLC

----------------------------------------------------------------------------
(* Naturals of unbounded size                                              *)

LimbBits == 14
BASE == 2^LimbBits

Hd(s) == IF s = <<>> THEN 0 ELSE Head(s)
Tl(s) == IF s = <<>> THEN <<>> ELSE Tail(s)

RECURSIVE Norm(_)
Norm(s) ==
  IF s = <<>> THEN <<>>
  ELSE IF s[Len(s)] = 0 THEN Norm(SubSeq(s, 1, Len(s) - 1))
  ELSE s

RECURSIVE BigOfInt(_)
BigOfInt(n) == IF n = 0 THEN <<>> ELSE <<n % BASE>> \o BigOfInt(n \div BASE)

RECURSIVE BigToInt(_)
BigToInt(s) == IF s = <<>> THEN 0 ELSE Head(s) + BASE * BigToInt(Tail(s))

RECURSIVE AddC(_, _, _)
AddC(a, b, c) ==
  IF a = <<>> /\ b = <<>> THEN (IF c = 0 THEN <<>> ELSE <<c>>)
  ELSE LET x == Hd(a) + Hd(b) + c
       IN  <<x % BASE>> \o AddC(Tl(a), Tl(b), x \div BASE)

BigAdd(a, b) == AddC(a, b, 0)

RECURSIVE SubB(_, _, _)
SubB(a, b, w) ==
  IF a = <<>> THEN <<>>
  ELSE LET x == Head(a) - Hd(b) - w
       IN  IF x < 0 THEN <<x + BASE>> \o SubB(Tail(a), Tl(b), 1)
                    ELSE <<x>> \o SubB(Tail(a), Tl(b), 0)

RECURSIVE CmpTop(_, _, _)
CmpTop(a, b, i) ==
  IF i = 0 THEN 0
  ELSE IF a[i] < b[i] THEN -1
  ELSE IF a[i] > b[i] THEN 1
  ELSE CmpTop(a, b, i - 1)

\* -1, 0, 1 as a < b, a = b, a > b
BigCmp(a, b) ==
  IF Len(a) < Len(b) THEN -1
  ELSE IF Len(a) > Len(b) THEN 1
  ELSE CmpTop(a, b, Len(a))

BigLeq(a, b) == BigCmp(a, b) <= 0
BigLess(a, b) == BigCmp(a, b) < 0

\* a - b, for a >= b
BigSub(a, b) == Norm(SubB(a, b, 0))

RECURSIVE MulLimb(_, _, _)
MulLimb(a, d, c) ==
  IF a = <<>> THEN (IF c = 0 THEN <<>> ELSE <<c>>)
  ELSE LET x == Head(a) * d + c
       IN  <<x % BASE>> \o MulLimb(Tail(a), d, x \div BASE)

RECURSIVE MulRows(_, _)
MulRows(a, b) ==
  IF b = <<>> THEN <<>>
  ELSE BigAdd(MulLimb(a, Head(b), 0), <<0>> \o MulRows(a, Tail(b)))

BigMul(a, b) == Norm(MulRows(a, b))

Zeros(n) == [i \in 1..n |-> 0]

\* a * 2^n
BigShl(a, n) ==
  IF a = <<>> THEN <<>>
  ELSE Zeros(n \div LimbBits) \o Norm(MulLimb(a, 2^(n % LimbBits), 0))

\* floor(a / 2^n)
BigShr(a, n) ==
  LET w == n \div LimbBits
      k == n % LimbBits
  IN  IF Len(a) <= w THEN <<>>
      ELSE LET s == SubSeq(a, w + 1, Len(a))
               up(i) == IF i < Len(s) THEN s[i + 1] ELSE 0
           IN  Norm([i \in 1..Len(s) |->
                      (s[i] \div 2^k) + (up(i) % 2^k) * 2^(LimbBits - k)])

\* a mod 2^n
BigLow(a, n) ==
  LET w == n \div LimbBits
      k == n % LimbBits
  IN  IF Len(a) <= w THEN a
      ELSE Norm(SubSeq(a, 1, w) \o <<a[w + 1] % 2^k>>)

RECURSIVE IntBitLen(_)
IntBitLen(n) == IF n = 0 THEN 0 ELSE 1 + IntBitLen(n \div 2)

BigBitLen(a) ==
  IF a = <<>> THEN 0 ELSE (Len(a) - 1) * LimbBits + IntBitLen(a[Len(a)])

\* bit i of a (bit 0 is the least significant)
BigBit(a, i) ==
  IF i \div LimbBits >= Len(a) THEN 0
  ELSE (a[i \div LimbBits + 1] \div 2^(i % LimbBits)) % 2

\* One step of long division: st is [q, r], the quotient and the remainder
\* of the bits of a above bit i; the result takes bit i in.
DivBit(a, b, i, st) ==
  LET r2 == IF BigBit(a, i) = 1 THEN BigAdd(BigAdd(st.r, st.r), <<1>>)
                                ELSE BigAdd(st.r, st.r)
      q2 == BigAdd(st.q, st.q)
  IN  IF BigLeq(b, r2) THEN [q |-> BigAdd(q2, <<1>>), r |-> BigSub(r2, b)]
                       ELSE [q |-> q2, r |-> r2]

\* the steps for bits hi down to lo (the upper half first, then the lower)
RECURSIVE DivBits(_, _, _, _, _)
DivBits(a, b, lo, hi, st) ==
  IF hi < lo THEN st
  ELSE IF lo = hi THEN DivBit(a, b, lo, st)
  ELSE LET mid == (lo + hi) \div 2
           up == DivBits(a, b, mid + 1, hi, st)
       \* the test makes TLC evaluate up before it descends (it is always true)
       IN  IF Len(up.q) >= 0 THEN DivBits(a, b, lo, mid, up) ELSE st

\* [q, r] with a = q*b + r and r < b, for b > 0
BigDivMod(a, b) == DivBits(a, b, 0, BigBitLen(a) - 1, [q |-> <<>>, r |-> <<>>])

----------------------------------------------------------------------------
(* uint32_t arithmetic: the result of the exact operation, modulo 2^32      *)

U32Bits == 32

U32(x) == BigLow(x, U32Bits)

U32Add(x, y) == U32(BigAdd(x, y))

U32Mul(x, y) == U32(BigMul(x, y))

U32Div(x, y) == BigDivMod(x, y).q

\* x - y modulo 2^32: x - y, or 2^32 + x - y when that is negative
U32Sub(x, y) ==
  IF BigLeq(y, x) THEN BigSub(x, y)
  ELSE BigSub(BigAdd(BigShl(<<1>>, U32Bits), x), y)

U32Shr(x, n) == BigShr(x, n)

\* x & (2^n - 1)
U32LowBits(x, n) == BigLow(x, n)

\* (uint8_t) x, for an int x
U8(x) == x % 256

RECURSIVE AndInt(_, _)
AndInt(a, b) ==
  IF a = 0 \/ b = 0 THEN 0
  ELSE (a % 2) * (b % 2) + 2 * AndInt(a \div 2, b \div 2)

\* x & mask, for a mask below 2^31
U32And(x, mask) == AndInt(BigToInt(BigLow(x, IntBitLen(mask))), mask)

----------------------------------------------------------------------------
(* double arithmetic.  A value is [m, e], standing for m * 2^e, with m of   *)
(* exactly p bits (p the mantissa width of double), or m = 0.  Every        *)
(* operation is the exact one rounded to nearest, ties to even.  All values *)
(* of the calculation are non-negative and far from the exponent's limits.  *)

\* m * 2^e rounded to p bits
FRound(m, e, p) ==
  LET n == BigBitLen(m)
  IN  IF n = 0 THEN [m |-> <<>>, e |-> 0]
      ELSE IF n <= p THEN [m |-> BigShl(m, p - n), e |-> e - (p - n)]
      ELSE LET sh   == n - p
               q    == BigShr(m, sh)
               rem  == BigLow(m, sh)
               half == BigShl(<<1>>, sh - 1)
               c    == BigCmp(rem, half)
               up   == c > 0 \/ (c = 0 /\ BigBit(q, 0) = 1)
               q1   == IF up THEN BigAdd(q, <<1>>) ELSE q
           IN  IF BigBitLen(q1) > p THEN [m |-> BigShr(q1, 1), e |-> e + sh + 1]
                                    ELSE [m |-> q1, e |-> e + sh]

\* (num / den) * 2^e rounded to p bits: the quotient to p + 1 bits or more,
\* with one more bit set below it when the division left a remainder
FRoundQuot(num, den, e, p) ==
  IF num = <<>> THEN [m |-> <<>>, e |-> 0]
  ELSE LET d  == p + 1 + BigBitLen(den) - BigBitLen(num)
           s  == IF d > 0 THEN d ELSE 0
           dm == BigDivMod(BigShl(num, s), den)
           q2 == BigAdd(dm.q, dm.q)
       IN  FRound(IF dm.r = <<>> THEN q2 ELSE BigAdd(q2, <<1>>), e - s - 1, p)

\* (double) x, for an integer x
FOfBig(x, p) == FRound(x, 0, p)

FMul(x, y, p) == FRound(BigMul(x.m, y.m), x.e + y.e, p)

FDiv(x, y, p) == FRoundQuot(x.m, y.m, x.e - y.e, p)

\* x - y, for x >= y
FSub(x, y, p) ==
  LET e == IF x.e < y.e THEN x.e ELSE y.e
  IN  FRound(BigSub(BigShl(x.m, x.e - e), BigShl(y.m, y.e - e)), e, p)

\* (uint32_t) x: the fraction is discarded
FTrunc(x) == IF x.e >= 0 THEN BigShl(x.m, x.e) ELSE BigShr(x.m, 0 - x.e)

----------------------------------------------------------------------------
(* The calculation of set_freq_Hz                                           *)

\* The mantissa widths double can have: 53 (IEEE binary64) and 24 (the
\* builds, avr-gcc's default among them, where double is binary32).
MantDigs == {24, 53}

\* #define CorrFact 0.999658117: the literal, rounded to double
CorrFactNum == 999658117
CorrFactDen == 1000000000
CorrFact(p) == FRoundQuot(BigOfInt(CorrFactNum), BigOfInt(CorrFactDen), 0, p)

\* #define MSNAc 1048575UL
MSNAc == BigOfInt(1048575)

XtalHz == 25000000
OutDiv == 6

\* mutant: the target divided by the correction factor
CorrTargetDivided(fout_Hz, p) == FDiv(FOfBig(fout_Hz, p), CorrFact(p), p)

\* fout_Hz * CorrFact, the first product of the expression below
CorrTarget(fout_Hz, p) == FMul(FOfBig(fout_Hz, p), CorrFact(p), p)

\* mutant: the correction factor left out
CalcMSNAUncorrected(fout_Hz, p) ==
  FDiv(FMul(FOfBig(fout_Hz, p), FOfBig(BigOfInt(OutDiv), p), p),
       FOfBig(BigOfInt(XtalHz), p), p)

\* double MSNA = fout_Hz * CorrFact * 6.0 / 25000000.0;
CalcMSNA(fout_Hz, p) ==
  FDiv(FMul(CorrTarget(fout_Hz, p), FOfBig(BigOfInt(OutDiv), p), p),
       FOfBig(BigOfInt(XtalHz), p), p)

\* uint32_t MSNAa = MSNA;
CalcMSNAa(MSNA) == FTrunc(MSNA)

\* uint32_t MSNAb = (double)(MSNA - MSNAa) * (double)MSNAc;
CalcMSNAb(MSNA, MSNAa, p) ==
  FTrunc(FMul(FSub(MSNA, FOfBig(MSNAa, p), p), FOfBig(MSNAc, p), p))

\* uint32_t MSNA_P1 = 128 * MSNAa + 128 * MSNAb / MSNAc - 512;
CalcP1(MSNAa, MSNAb) ==
  U32Sub(U32Add(U32Mul(<<128>>, MSNAa), U32Div(U32Mul(<<128>>, MSNAb), MSNAc)),
         <<512>>)

\* mutant: the parentheses left out, 128 * MSNAb - MSNAc * 128 * MSNAb / MSNAc
CalcP2NoParens(MSNAb) ==
  U32Sub(U32Mul(<<128>>, MSNAb),
         U32Div(U32Mul(U32Mul(MSNAc, <<128>>), MSNAb), MSNAc))

\* uint32_t MSNA_P2 = 128 * MSNAb - MSNAc * (128 * MSNAb / MSNAc);
CalcP2(MSNAb) ==
  U32Sub(U32Mul(<<128>>, MSNAb),
         U32Mul(MSNAc, U32Div(U32Mul(<<128>>, MSNAb), MSNAc)))

\* uint32_t MSNA_P3 = MSNAc;
CalcP3 == MSNAc

----------------------------------------------------------------------------
(* The state                                                                *)

Tasks == {1, 2}

VARIABLES
  serialized,    \* the callers run one invocation at a time
  mant,          \* the mantissa width of double in this build
  pc,            \* per task: the line of set_freq_Hz it is at (0: not in a call)
  loc,           \* per task: fout_Hz and the locals of set_freq_Hz
  fw,            \* per task: its position in I2CFlexiWrite and the arguments
  txBuf,         \* Wire: the bytes queued for the transaction
  transmitting,  \* Wire: between beginTransmission and endTransmission
  regs,          \* the device's register image
  image0,        \* which register image the device started with
  log,           \* per task: the bus events of its call so far
  fresh,         \* a device at its default image that gets this call's writes
  seen,          \* what completed calls did: <<fout_Hz, log, written registers>>
  bursts,        \* the feedback bursts the calls have computed
  ncalls,        \* per task: the calls it has made
  running,       \* the task that took the last step (0: none yet)
  preempts       \* how often a task inside a call was preempted by another

vars == <<serialized, mant, pc, loc, fw, txBuf, transmitting, regs, image0,
          log, fresh, seen, bursts, ncalls, running, preempts>>

Regs == 0..255

FZero == [m |-> <<>>, e |-> 0]

NoLocals ==
  [fout_Hz |-> <<>>, MSNA |-> FZero, MSNAa |-> <<>>, MSNAb |-> <<>>,
   MSNA_P1 |-> <<>>, MSNA_P2 |-> <<>>, MSNA_P3 |-> <<>>]

NoFrame == [line |-> 0, k |-> 0, reg |-> 0, b0 |-> 0, include |-> FALSE, b |-> <<>>]

\* A register image the device may hold before the first call; image 0 stands
\* for the device's defaults.
ImageOf(k) == [r \in Regs |-> (k * (r + 3)) % 256]

DeviceDefault == ImageOf(0)

----------------------------------------------------------------------------
(* set_freq_Hz                                                              *)

\* the statements that call I2CFlexiWrite, by line
WriteLines == {58, 59, 63, 75, 76, 93, 110, 124, 128, 131}

\* mutant: the power-down burst of line 63 left out
NextLineNoPowerDown(l) ==
  CASE l = 58 -> 59   [] l = 59 -> 75   [] l = 63 -> 75   [] l = 75 -> 76
    [] l = 76 -> 93   [] l = 93 -> 99   [] l = 99 -> 100  [] l = 100 -> 102
    [] l = 102 -> 105 [] l = 105 -> 106 [] l = 106 -> 107 [] l = 107 -> 110
    [] l = 110 -> 124 [] l = 124 -> 127 [] l = 127 -> 128 [] l = 128 -> 131
    [] l = 131 -> 133

\* mutant: the delay after the PLL reset instead of before it
NextLineDelayAfterReset(l) ==
  CASE l = 58 -> 59   [] l = 59 -> 63   [] l = 63 -> 75   [] l = 75 -> 76
    [] l = 76 -> 93   [] l = 93 -> 99   [] l = 99 -> 100  [] l = 100 -> 102
    [] l = 102 -> 105 [] l = 105 -> 106 [] l = 106 -> 107 [] l = 107 -> 110
    [] l = 110 -> 124 [] l = 124 -> 128 [] l = 128 -> 127 [] l = 127 -> 131
    [] l = 131 -> 133

\* mutant: the output enabled before the PLL reset
NextLineEnableBeforeReset(l) ==
  CASE l = 58 -> 59   [] l = 59 -> 63   [] l = 63 -> 75   [] l = 75 -> 76
    [] l = 76 -> 93   [] l = 93 -> 99   [] l = 99 -> 100  [] l = 100 -> 102
    [] l = 102 -> 105 [] l = 105 -> 106 [] l = 106 -> 107 [] l = 107 -> 110
    [] l = 110 -> 124 [] l = 124 -> 127 [] l = 127 -> 131 [] l = 131 -> 128
    [] l = 128 -> 133

\* the statement after the one at line l (133: the end of the function)
NextLine(l) ==
  CASE l = 58 -> 59   [] l = 59 -> 63   [] l = 63 -> 75   [] l = 75 -> 76
    [] l = 76 -> 93   [] l = 93 -> 99   [] l = 99 -> 100  [] l = 100 -> 102
    [] l = 102 -> 105 [] l = 105 -> 106 [] l = 106 -> 107 [] l = 107 -> 110
    [] l = 110 -> 124 [] l = 124 -> 127 [] l = 127 -> 128 [] l = 128 -> 131
    [] l = 131 -> 133

\* mutant: register 31 takes its high nibble from MSNA_P3 >> 16
FeedbackBytesWrongShift(P1, P2, P3) ==
  << U8(U32And(U32Shr(P3, 8), 255)),
     U8(U32And(P3, 255)),
     U8(U32And(U32Shr(P1, 16), 3)),
     U8(U32And(U32Shr(P1, 8), 255)),
     U8(U32And(P1, 255)),
     U8(U8(U32And(U32Shr(P3, 16), 240)) + U8(U32And(U32Shr(P2, 16), 15))),
     U8(U32And(U32Shr(P2, 8), 255)),
     U8(U32And(P2, 255)) >>

\* the eight bytes of the feedback multisynth burst (lines 110-121)
FeedbackBytes(P1, P2, P3) ==
  << U8(U32And(U32Shr(P3, 8), 255)),     \* Reg 26 = MSNA_P3[15:8]
     U8(U32And(P3, 255)),                \* Reg 27 = MSNA_P3[7:0]
     U8(U32And(U32Shr(P1, 16), 3)),      \* Reg 28 = XXXXXXMSNA_P1[17:16]
     U8(U32And(U32Shr(P1, 8), 255)),     \* Reg 29 = MSNA_P1[15:8]
     U8(U32And(P1, 255)),                \* Reg 30 = MSNA_P1[7:0]
     U8(U8(U32And(U32Shr(P3, 12), 240)) + U8(U32And(U32Shr(P2, 16), 15))),
                                         \* Reg 31 = MSNA_P3[19:16]MSNA_P2[19:16]
     U8(U32And(U32Shr(P2, 8), 255)),     \* Reg 32 = MSNA_P2[15:8]
     U8(U32And(P2, 255)) >>              \* Reg 33 = MSNA_P2[7:0]

One(reg, b0) == [reg |-> reg, b0 |-> b0, include |-> FALSE, b |-> <<0, 0, 0, 0, 0, 0, 0>>]

Eight(reg, b0, b) == [reg |-> reg, b0 |-> b0, include |-> TRUE, b |-> b]

\* mutant: the call of line 93 without its include_b1_to_b7 argument
ArgsShortBurst(l, L) ==
  CASE l = 58  -> One(24, 0)
    [] l = 59  -> One(3, 255)
    [] l = 63  -> Eight(16, 128, <<128, 128, 128, 128, 128, 128, 128>>)
    [] l = 75  -> One(15, 0)
    [] l = 76  -> One(183, 2)
    [] l = 93  -> One(42, 0)
    [] l = 110 -> LET fb == FeedbackBytes(L.MSNA_P1, L.MSNA_P2, L.MSNA_P3)
                  IN  Eight(26, fb[1], Tail(fb))
    [] l = 124 -> One(16, 79)
    [] l = 128 -> One(177, 32)
    [] l = 131 -> One(3, 0)

\* the arguments of the I2CFlexiWrite call at line l, with the locals L
Args(l, L) ==
  CASE l = 58  -> One(24, 0)
    [] l = 59  -> One(3, 255)
    [] l = 63  -> Eight(16, 128, <<128, 128, 128, 128, 128, 128, 128>>)
    [] l = 75  -> One(15, 0)
    [] l = 76  -> One(183, 2)
    [] l = 93  -> Eight(42, 0, <<1, 0, 1, 0, 0, 0, 0>>)
    [] l = 110 -> LET fb == FeedbackBytes(L.MSNA_P1, L.MSNA_P2, L.MSNA_P3)
                  IN  Eight(26, fb[1], Tail(fb))
    [] l = 124 -> One(16, 79)
    [] l = 128 -> One(177, 32)
    [] l = 131 -> One(3, 0)

----------------------------------------------------------------------------
(* Wire and the device                                                      *)

\* Wire.write(x): queued while a transmission is open, dropped otherwise
WireWrite(buf, open, x) == IF open THEN Append(buf, x) ELSE buf

\* The device takes a transaction: the first byte is the register address,
\* the bytes after it go to that register and the ones following it.
BusWrite(image, buf) ==
  IF Len(buf) < 2 THEN image
  ELSE [r \in Regs |->
          LET i == (r - buf[1] + 256) % 256
          IN  IF i < Len(buf) - 1 THEN buf[i + 2] ELSE image[r]]

\* the transaction as the log keeps it
BusEvent(buf) ==
  [kind |-> "write", reg |-> IF buf = <<>> THEN -1 ELSE buf[1], data |-> Tl(buf)]

DelayEvent == [kind |-> "delay", reg |-> -1, data |-> <<>>]

\* the registers set_freq_Hz writes
Written == {3, 15, 24, 177, 183} \cup (16..23) \cup (26..33) \cup (42..49)

WrittenImage(image) == [r \in Written |-> image[r]]

----------------------------------------------------------------------------
(* The steps of a task                                                      *)

\* mutant: callers that do not wait for a running invocation
set_freq_HzUnguarded(t, f) ==
  /\ pc[t] = 0
  /\ pc' = [pc EXCEPT ![t] = 58]
  /\ loc' = [loc EXCEPT ![t] = [NoLocals EXCEPT !.fout_Hz = f]]
  /\ log' = [log EXCEPT ![t] = <<>>]
  /\ fresh' = DeviceDefault
  /\ ncalls' = [ncalls EXCEPT ![t] = @ + 1]
  /\ UNCHANGED <<serialized, mant, fw, txBuf, transmitting, regs, image0, seen, bursts>>

\* A caller invokes set_freq_Hz(f).  Callers that serialize wait until no
\* other invocation is running.
set_freq_Hz(t, f) ==
  /\ pc[t] = 0
  /\ serialized => \A u \in Tasks : pc[u] = 0
  /\ pc' = [pc EXCEPT ![t] = 58]
  /\ loc' = [loc EXCEPT ![t] = [NoLocals EXCEPT !.fout_Hz = f]]
  /\ log' = [log EXCEPT ![t] = <<>>]
  /\ fresh' = DeviceDefault
  /\ ncalls' = [ncalls EXCEPT ![t] = @ + 1]
  /\ UNCHANGED <<serialized, mant, fw, txBuf, transmitting, regs, image0, seen, bursts>>

\* I2CFlexiWrite is entered with the arguments of the call at pc[t];
\* line 142: Wire.beginTransmission(i2c_bus_address)
BeginTransmission(t) ==
  /\ pc[t] \in WriteLines
  /\ fw[t].line = 0
  /\ LET a == Args(pc[t], loc[t])
     IN  /\ fw' = [fw EXCEPT ![t] = [line |-> 143, k |-> 0, reg |-> a.reg,
                                     b0 |-> a.b0, include |-> a.include, b |-> a.b]]
         /\ bursts' = IF pc[t] = 110 THEN bursts \cup {<<a.b0>> \o a.b} ELSE bursts
  /\ txBuf' = <<>>
  /\ transmitting' = TRUE
  /\ UNCHANGED <<serialized, mant, pc, loc, regs, image0, log, fresh, seen, ncalls>>

\* line 143: Wire.write(reg)
WriteReg(t) ==
  /\ fw[t].line = 143
  /\ txBuf' = WireWrite(txBuf, transmitting, fw[t].reg)
  /\ fw' = [fw EXCEPT ![t].line = 144]
  /\ UNCHANGED <<serialized, mant, pc, loc, transmitting, regs, image0, log,
                 fresh, seen, bursts, ncalls>>

\* mutant: b1..b7 sent whatever include_b1_to_b7 says
WriteB0Always(t) ==
  /\ fw[t].line = 144
  /\ txBuf' = WireWrite(txBuf, transmitting, fw[t].b0)
  /\ fw' = [fw EXCEPT ![t].line = 146, ![t].k = 1]
  /\ UNCHANGED <<serialized, mant, pc, loc, transmitting, regs, image0, log,
                 fresh, seen, bursts, ncalls>>

\* lines 144-145: Wire.write(b0); if(include_b1_to_b7)
WriteB0(t) ==
  /\ fw[t].line = 144
  /\ txBuf' = WireWrite(txBuf, transmitting, fw[t].b0)
  /\ fw' = IF fw[t].include THEN [fw EXCEPT ![t].line = 146, ![t].k = 1]
                            ELSE [fw EXCEPT ![t].line = 149]
  /\ UNCHANGED <<serialized, mant, pc, loc, transmitting, regs, image0, log,
                 fresh, seen, bursts, ncalls>>

\* lines 146-147: Wire.write(b1); ... Wire.write(b7); one of them per step
WriteB1to7(t) ==
  /\ fw[t].line = 146
  /\ txBuf' = WireWrite(txBuf, transmitting, fw[t].b[fw[t].k])
  /\ fw' = IF fw[t].k < 7 THEN [fw EXCEPT ![t].k = @ + 1]
                          ELSE [fw EXCEPT ![t].line = 149]
  /\ UNCHANGED <<serialized, mant, pc, loc, transmitting, regs, image0, log,
                 fresh, seen, bursts, ncalls>>

\* line 149: Wire.endTransmission() puts the queued bytes on the bus, and
\* I2CFlexiWrite returns to the statement after the call
EndTransmission(t) ==
  /\ fw[t].line = 149
  /\ regs' = BusWrite(regs, txBuf)
  /\ fresh' = BusWrite(fresh, txBuf)
  /\ log' = [log EXCEPT ![t] = Append(@, BusEvent(txBuf))]
  /\ txBuf' = <<>>
  /\ transmitting' = FALSE
  /\ fw' = [fw EXCEPT ![t] = NoFrame]
  /\ pc' = [pc EXCEPT ![t] = NextLine(@)]
  /\ UNCHANGED <<serialized, mant, loc, image0, seen, bursts, ncalls>>

\* a statement of the calculation: the locals change, nothing else does
Local(t, l, L) ==
  /\ pc[t] = l
  /\ loc' = [loc EXCEPT ![t] = L]
  /\ pc' = [pc EXCEPT ![t] = NextLine(l)]
  /\ UNCHANGED <<serialized, mant, fw, txBuf, transmitting, regs, image0, log,
                 fresh, seen, bursts, ncalls>>

L99(t) == Local(t, 99, [loc[t] EXCEPT !.MSNA = CalcMSNA(loc[t].fout_Hz, mant)])

L100(t) == Local(t, 100, [loc[t] EXCEPT !.MSNAa = CalcMSNAa(loc[t].MSNA)])

L102(t) ==
  Local(t, 102, [loc[t] EXCEPT !.MSNAb = CalcMSNAb(loc[t].MSNA, loc[t].MSNAa, mant)])

L105(t) == Local(t, 105, [loc[t] EXCEPT !.MSNA_P1 = CalcP1(loc[t].MSNAa, loc[t].MSNAb)])

L106(t) == Local(t, 106, [loc[t] EXCEPT !.MSNA_P2 = CalcP2(loc[t].MSNAb)])

L107(t) == Local(t, 107, [loc[t] EXCEPT !.MSNA_P3 = CalcP3])

\* line 127: delayMicroseconds(500)
DelayMicroseconds(t) ==
  /\ pc[t] = 127
  /\ log' = [log EXCEPT ![t] = Append(@, DelayEvent)]
  /\ pc' = [pc EXCEPT ![t] = NextLine(127)]
  /\ UNCHANGED <<serialized, mant, loc, fw, txBuf, transmitting, regs, image0,
                 fresh, seen, bursts, ncalls>>

\* line 133: set_freq_Hz returns; its locals are gone
Return(t) ==
  /\ pc[t] = 133
  /\ seen' = seen \cup {<<loc[t].fout_Hz, log[t], WrittenImage(regs)>>}
  /\ pc' = [pc EXCEPT ![t] = 0]
  /\ loc' = [loc EXCEPT ![t] = NoLocals]
  /\ log' = [log EXCEPT ![t] = <<>>]
  /\ UNCHANGED <<serialized, mant, fw, txBuf, transmitting, regs, image0, fresh,
                 bursts, ncalls>>

Calculation(t) == L99(t) \/ L100(t) \/ L102(t) \/ L105(t) \/ L106(t) \/ L107(t)

FlexiWrite(t) ==
  BeginTransmission(t) \/ WriteReg(t) \/ WriteB0(t) \/ WriteB1to7(t) \/ EndTransmission(t)

Step(t) == FlexiWrite(t) \/ Calculation(t) \/ DelayMicroseconds(t) \/ Return(t)

----------------------------------------------------------------------------
(* Scheduling.  Task t takes the next step.  It preempts when another task, *)
(* the one that took the last step, is inside a call; the model follows a   *)
(* run up to MaxPreempt preemptions.  Serialized callers never preempt.     *)

MaxPreempt == 1

Preempting(t) == running # 0 /\ running # t /\ pc[running] # 0

Sched(t) ==
  /\ Preempting(t) => preempts < MaxPreempt
  /\ preempts' = IF Preempting(t) THEN preempts + 1 ELSE preempts
  /\ running' = t

----------------------------------------------------------------------------
(* Serialized callers: any frequencies, any starting image                  *)

MaxCalls == 2
NumImages == 1

U32Max == BigSub(BigShl(<<1>>, U32Bits), <<1>>)

FreqSet == {<<>>, BigOfInt(136000000), BigOfInt(150000000), U32Max}

Idle == [t \in Tasks |-> 0]

InitCommon ==
  /\ pc = Idle
  /\ loc = [t \in Tasks |-> NoLocals]
  /\ fw = [t \in Tasks |-> NoFrame]
  /\ txBuf = <<>>
  /\ transmitting = FALSE
  /\ regs = ImageOf(image0)
  /\ log = [t \in Tasks |-> <<>>]
  /\ fresh = DeviceDefault
  /\ seen = {}
  /\ bursts = {}
  /\ ncalls = [t \in Tasks |-> 0]
  /\ running = 0
  /\ preempts = 0

Init ==
  /\ serialized = TRUE
  /\ mant \in MantDigs
  /\ image0 \in 0..NumImages
  /\ InitCommon

TotalCalls == ncalls[1] + ncalls[2]

Next ==
  \/ \E t \in Tasks : \E f \in FreqSet :
       TotalCalls < MaxCalls /\ Sched(t) /\ set_freq_Hz(t, f)
  \/ \E t \in Tasks : Sched(t) /\ Step(t)

Spec == Init /\ [][Next]_vars

----------------------------------------------------------------------------
(* Two invocations, serialized by the callers or not                        *)

ConcFreq(t) == IF t = 1 THEN BigOfInt(136000000) ELSE BigOfInt(150000000)

InitConc ==
  /\ serialized \in BOOLEAN
  /\ mant = 53
  /\ image0 = 0
  /\ InitCommon

\* each task invokes once; the first invocation is task 1's
NextConc ==
  \/ \E t \in Tasks :
       /\ ncalls[t] = 0
       /\ t = 1 \/ ncalls[1] = 1
       /\ Sched(t)
       /\ set_freq_Hz(t, ConcFreq(t))
  \/ \E t \in Tasks : Sched(t) /\ Step(t)

SpecConc == InitConc /\ [][NextConc]_vars

----------------------------------------------------------------------------
(* One call for each frequency of a sample of the supported band            *)

BandLo == 100000000
BandHi == 150000000
NumSamples == 40

\* sample k of the band: the samples are spread over it by a fixed stride
FreqOf(k) == BandLo + ((k * 7654321) % (BandHi - BandLo + 1))

FreqSample ==
  {BigOfInt(FreqOf(k)) : k \in 0..NumSamples}
    \cup {BigOfInt(BandLo), BigOfInt(BandHi), BigOfInt(136000000)}

InitCalc ==
  /\ serialized = TRUE
  /\ mant \in MantDigs
  /\ image0 = 0
  /\ InitCommon

NextCalc ==
  \/ \E f \in FreqSample : TotalCalls < 1 /\ Sched(1) /\ set_freq_Hz(1, f)
  \/ Sched(1) /\ Step(1)

SpecCalc == InitCalc /\ [][NextCalc]_vars

----------------------------------------------------------------------------
(* The feedback multisynth burst for any P1, P2, P3 of the fields' widths   *)

NumP == 3

P1Sample == {(k * 98765) % 2^18 : k \in 0..NumP} \cup {0, 2^18 - 1, 174762, 87381}

P2Sample == {(k * 777777) % 2^20 : k \in 0..NumP} \cup {0, 2^20 - 1, 699050, 349525}

P3Sample == {(k * 600011) % 2^20 : k \in 1..NumP} \cup {1, 2^20 - 1, 349525}

\* task 1 is about to execute line 110
InitPack ==
  /\ serialized = TRUE
  /\ mant = 53
  /\ image0 = 0
  /\ \E p1 \in P1Sample, p2 \in P2Sample, p3 \in P3Sample :
       loc = [t \in Tasks |->
                IF t = 1 THEN [NoLocals EXCEPT !.MSNA_P1 = BigOfInt(p1),
                                               !.MSNA_P2 = BigOfInt(p2),
                                               !.MSNA_P3 = BigOfInt(p3)]
                         ELSE NoLocals]
  /\ pc = [t \in Tasks |-> IF t = 1 THEN 110 ELSE 0]
  /\ fw = [t \in Tasks |-> NoFrame]
  /\ txBuf = <<>>
  /\ transmitting = FALSE
  /\ regs = ImageOf(image0)
  /\ log = [t \in Tasks |-> <<>>]
  /\ fresh = DeviceDefault
  /\ seen = {}
  /\ bursts = {}
  /\ ncalls = [t \in Tasks |-> IF t = 1 THEN 1 ELSE 0]
  /\ running = 1
  /\ preempts = 0

NextPack == \E t \in Tasks : Sched(t) /\ FlexiWrite(t)

SpecPack == InitPack /\ [][NextPack]_vars

----------------------------------------------------------------------------
(* What the claims speak of                                                 *)

IsWrite(e) == e.kind = "write"

\* the write transactions of task t's call so far, in order
Writes(t) == SelectSeq(log[t], IsWrite)

W1(reg, x) == [kind |-> "write", reg |-> reg, data |-> <<x>>]

W8(reg, d) == [kind |-> "write", reg |-> reg, data |-> d]

Delays(t) == {i \in 1..Len(log[t]) : log[t][i].kind = "delay"}

\* task t is past line 107: every local of the calculation has its value
Computed(t) == pc[t] \in {110, 124, 127, 128, 131, 133}

InBand(f) == BigLeq(BigOfInt(BandLo), f) /\ BigLeq(f, BigOfInt(BandHi))

Pow2(n) == BigShl(<<1>>, n)

\* |x - y| <= tol, for a Big x and ints y, tol
Near(x, y, tol) == BigLeq(BigOfInt(y - tol), x) /\ BigLeq(x, BigOfInt(y + tol))

\* floor(x * k), for a double x and a Big k
FloorTimes(x, k) ==
  IF x.e >= 0 THEN BigShl(BigMul(x.m, k), x.e) ELSE BigShr(BigMul(x.m, k), 0 - x.e)

\* the fields the datasheet's layout reads out of registers 26..33
Reassemble(d) ==
  [P1 |-> (d[3] % 4) * 65536 + d[4] * 256 + d[5],
   P2 |-> (d[6] % 16) * 65536 + d[7] * 256 + d[8],
   P3 |-> (d[6] \div 16) * 65536 + d[1] * 256 + d[2]]

\* The reconstructed frequency f' = 25,000,000 * (a + b/c) / 6 / 0.999658117
\* against f, both multiplied by 6 * c * 999658117:
\*   f' * that = 25,000,000 * 10^9 * (a*c + b),  f * that = f * 6 * c * 999658117
FPrimeScaled(a, b) ==
  BigMul(BigMul(BigOfInt(XtalHz), BigOfInt(CorrFactDen)), BigAdd(BigMul(a, MSNAc), b))

FScaled(f) ==
  BigMul(BigMul(BigMul(f, BigOfInt(OutDiv)), MSNAc), BigOfInt(CorrFactNum))

AbsDiff(x, y) == IF BigLeq(x, y) THEN BigSub(y, x) ELSE BigSub(x, y)

\* task t has disabled the outputs (its second write) and not finished
Configuring(t) == pc[t] \notin {0, 133} /\ Len(Writes(t)) >= 2

BurstRegs(image) == [i \in 1..8 |-> image[25 + i]]

\* the configuration registers of C9's list
ConfigRegs == {15, 183, 177} \cup (16..23) \cup (26..33) \cup (42..49)

\* the phase a write belongs to: 1 Disabled, 2 Configuring, 3 PLL-Resetting,
\* 4 Enabled
Phase(e) ==
  IF e.reg = 3 /\ e.data = <<0>> THEN 4
  ELSE IF e.reg = 177 THEN 3
  ELSE IF e.reg \in {3, 24} THEN 1
  ELSE 2

----------------------------------------------------------------------------
(* The claims                                                               *)

\* C1 as stated: a call that has reached its end has issued exactly the 9
\* writes reg 24, 3, 15, 183, 42.., 26.., 16, 177, 3, in that order.
C1_NineWrites ==
  \A t \in Tasks : pc[t] = 133 =>
    LET w == Writes(t)
    IN  /\ Len(w) = 9
        /\ [i \in 1..9 |-> w[i].reg] = <<24, 3, 15, 183, 42, 26, 16, 177, 3>>

\* C1 amended: a call issues exactly 10 writes and no others: the 9 of the
\* claim and, third, after reg 3 = 0xFF and before reg 15, the burst
\* reg 16..23 = 0x80 that powers all output drivers down.
C1_TenWrites ==
  \A t \in Tasks :
    LET w == Writes(t)
    IN  /\ Len(w) <= 10
        /\ pc[t] = 133 =>
             /\ Len(w) = 10
             /\ w[1] = W1(24, 0)
             /\ w[2] = W1(3, 255)
             /\ w[3] = W8(16, <<128, 128, 128, 128, 128, 128, 128, 128>>)
             /\ w[4] = W1(15, 0)
             /\ w[5] = W1(183, 2)
             /\ w[6] = W8(42, <<0, 1, 0, 1, 0, 0, 0, 0>>)
             /\ w[7].reg = 26 /\ Len(w[7].data) = 8
             /\ w[8] = W1(16, 79)
             /\ w[9] = W1(177, 32)
             /\ w[10] = W1(3, 0)

C1_Witness == \E t \in Tasks : pc[t] = 133 /\ Len(Writes(t)) = 10

\* C2: in every call the settle delay happens exactly once, right after the
\* clock control write reg 16 = 0x4F and right before the PLL reset write
\* reg 177 = 0x20, with no bus write between the two, and the feedback
\* multisynth burst (reg 26, 8 bytes) is written before the delay.
C2_DelayOnceBetween ==
  \A t \in Tasks :
    LET L == log[t]
    IN  /\ Cardinality(Delays(t)) <= 1
        /\ pc[t] \in {128, 131, 133} => Cardinality(Delays(t)) = 1
        /\ \A i \in Delays(t) :
             /\ i > 1 /\ L[i - 1] = W1(16, 79)
             /\ i < Len(L) => L[i + 1] = W1(177, 32)
             /\ \E j \in 1..(i - 1) : L[j].reg = 26 /\ Len(L[j].data) = 8
        /\ \A i \in 1..Len(L) :
             /\ L[i] = W1(177, 32) => i > 1 /\ L[i - 1].kind = "delay"
             /\ (L[i] = W1(16, 79) /\ i < Len(L)) => L[i + 1].kind = "delay"
        /\ pc[t] = 133 =>
             \E i \in 2..(Len(L) - 1) : L[i - 1] = W1(16, 79) /\ L[i + 1] = W1(177, 32)

C2_Witness ==
  \E t \in Tasks : pc[t] = 133 /\ \E i \in Delays(t) : log[t][i + 1] = W1(177, 32)

\* C3: for every f in the band 100,000,000..150,000,000 (extremes included)
\* the computed values satisfy b < c, P2 < c, P1 < 2^18, P2 < 2^20 and
\* P3 = c = 2^20 - 1, and no 32-bit intermediate of the packing wraps:
\* 128*a, 128*b, 128*b/c, c*(128*b/c) and 128*a + 128*b/c are below 2^32 as
\* exact numbers, and neither subtraction goes below zero.
C3_FieldWidths ==
  \A t \in Tasks : (Computed(t) /\ InBand(loc[t].fout_Hz)) =>
    LET a    == loc[t].MSNAa
        b    == loc[t].MSNAb
        a128 == BigMul(<<128>>, a)
        b128 == BigMul(<<128>>, b)
        q    == BigDivMod(b128, MSNAc).q
        cq   == BigMul(MSNAc, q)
        sum  == BigAdd(a128, q)
    IN  /\ BigLess(b, MSNAc)
        /\ BigLess(loc[t].MSNA_P2, MSNAc)
        /\ BigLess(loc[t].MSNA_P1, Pow2(18))
        /\ BigLess(loc[t].MSNA_P2, Pow2(20))
        /\ loc[t].MSNA_P3 = MSNAc
        /\ MSNAc = BigSub(Pow2(20), <<1>>)
        /\ BigLess(a128, Pow2(32)) /\ BigLess(b128, Pow2(32))
        /\ BigLess(q, Pow2(32)) /\ BigLess(cq, Pow2(32))
        /\ BigLess(sum, Pow2(32))
        /\ BigLeq(<<512>>, sum) /\ BigLeq(cq, b128)
        /\ loc[t].MSNA_P1 = BigSub(sum, <<512>>)
        /\ loc[t].MSNA_P2 = BigSub(b128, cq)

C3_Witness ==
  \E t \in Tasks :
    Computed(t) /\ loc[t].fout_Hz = BigOfInt(BandHi) /\ loc[t].MSNAa = BigOfInt(35)

\* C4 as stated: for 136,000,000 Hz the corrected target is about
\* 136,046,196.6 Hz, above the requested frequency, the ratio about 32.65109,
\* a = 32, c = 1,048,575, b within 1,000 of 682,752, and P1, P2, P3 are the
\* formulas' values for those a, b, c.
C4_ScenarioAsStated ==
  \A t \in Tasks : (pc[t] = 133 /\ loc[t].fout_Hz = BigOfInt(136000000)) =>
    LET ct == CorrTarget(loc[t].fout_Hz, mant)
        a  == BigToInt(loc[t].MSNAa)
        b  == BigToInt(loc[t].MSNAb)
        c  == BigToInt(MSNAc)
    IN  /\ Near(FloorTimes(ct, <<1>>), 136046196, 1000)
        /\ BigLess(loc[t].fout_Hz, FloorTimes(ct, <<1>>))
        /\ Near(FloorTimes(loc[t].MSNA, BigOfInt(100000)), 3265109, 1)
        /\ a = 32 /\ c = 1048575
        /\ b >= 682752 - 1000 /\ b <= 682752 + 1000
        /\ loc[t].MSNA_P1 = BigOfInt(128 * a + ((128 * b) \div c) - 512)
        /\ loc[t].MSNA_P2 = BigOfInt(128 * b - c * ((128 * b) \div c))
        /\ loc[t].MSNA_P3 = BigOfInt(c)

\* C4 amended: for 136,000,000 Hz the corrected target is about
\* 135,953,503.9 Hz, below the requested frequency (the factor is below 1),
\* the ratio about 32.62884, a = 32, c = 1,048,575, b within 1,000 of
\* 659,386, and the P1, P2, P3 the call computes and writes to registers
\* 26..33 are 128*a + floor(128*b/c) - 512, 128*b - c*floor(128*b/c) and c.
C4_ScenarioAsComputed ==
  \A t \in Tasks : (pc[t] = 133 /\ loc[t].fout_Hz = BigOfInt(136000000)) =>
    LET ct == CorrTarget(loc[t].fout_Hz, mant)
        a  == BigToInt(loc[t].MSNAa)
        b  == BigToInt(loc[t].MSNAb)
        c  == BigToInt(MSNAc)
        P1 == 128 * a + ((128 * b) \div c) - 512
        P2 == 128 * b - c * ((128 * b) \div c)
    IN  /\ Near(FloorTimes(ct, <<10>>), 1359535039, 100)
        /\ BigLess(FloorTimes(ct, <<1>>), loc[t].fout_Hz)
        /\ Near(FloorTimes(loc[t].MSNA, BigOfInt(100000)), 3262884, 1)
        /\ a = 32 /\ c = 1048575
        /\ b >= 659386 - 1000 /\ b <= 659386 + 1000
        /\ loc[t].MSNA_P1 = BigOfInt(P1)
        /\ loc[t].MSNA_P2 = BigOfInt(P2)
        /\ loc[t].MSNA_P3 = BigOfInt(c)
        /\ Reassemble(Writes(t)[7].data) = [P1 |-> P1, P2 |-> P2, P3 |-> c]

C4_Witness ==
  \E t \in Tasks :
    /\ pc[t] = 133 /\ loc[t].fout_Hz = BigOfInt(136000000)
    /\ loc[t].MSNAa = BigOfInt(32) /\ loc[t].MSNAb = BigOfInt(659386)

\* C5 as stated: for every f in the band, f' <= f and (f - f') / f <= 1/2^20.
C5_RoundTripFromBelow ==
  \A t \in Tasks : (Computed(t) /\ InBand(loc[t].fout_Hz)) =>
    LET fp == FPrimeScaled(loc[t].MSNAa, loc[t].MSNAb)
        f  == FScaled(loc[t].fout_Hz)
    IN  BigLeq(fp, f) /\ BigLeq(BigShl(BigSub(f, fp), 20), f)

\* C5 amended: for every f in the band, |f - f'| / f <= 1/2^20; and f' <= f
\* where double has a 53-bit mantissa (where double is the 32-bit format the
\* products are rounded to 24 bits and f' can exceed f).
C5_RoundTrip ==
  \A t \in Tasks : (Computed(t) /\ InBand(loc[t].fout_Hz)) =>
    LET fp == FPrimeScaled(loc[t].MSNAa, loc[t].MSNAb)
        f  == FScaled(loc[t].fout_Hz)
    IN  /\ BigLeq(BigShl(AbsDiff(f, fp), 20), f)
        /\ mant = 53 => BigLeq(fp, f)

C5_Witness ==
  \E t \in Tasks :
    /\ Computed(t) /\ loc[t].fout_Hz = BigOfInt(BandLo) /\ mant = 53
    /\ BigLess(FPrimeScaled(loc[t].MSNAa, loc[t].MSNAb), FScaled(loc[t].fout_Hz))

\* C6: whatever calls were made, with whatever arguments, every register
\* outside 3, 15, 16..23, 24, 26..33, 42..49, 177, 183 holds the value it
\* started with, and no bus event of the driver is a read.
C6_Frame ==
  /\ \A r \in Regs \ Written : regs[r] = ImageOf(image0)[r]
  /\ \A t \in Tasks : \A i \in 1..Len(log[t]) : log[t][i].kind \in {"write", "delay"}

C6_Witness ==
  /\ pc = Idle /\ image0 = 1
  /\ \E x \in seen : x[1] = <<>>
  /\ \E x \in seen : x[1] = U32Max
  /\ WrittenImage(regs) # WrittenImage(ImageOf(image0))

\* C7: no state carries over between serialized calls: when a call ends, the
\* registers the driver writes hold what the same writes leave on a fresh
\* device, and the call's bus events and those registers are the same as at
\* the end of every earlier call with the same frequency.
C7_NoCarryOver ==
  /\ \A t \in Tasks : pc[t] = 133 =>
       /\ WrittenImage(regs) = WrittenImage(fresh)
       /\ \A x \in seen : x[1] = loc[t].fout_Hz =>
            x[2] = log[t] /\ x[3] = WrittenImage(regs)
  /\ \A x, y \in seen : x[1] = y[1] => x = y

C7_Witness ==
  \E t \in Tasks :
    /\ pc[t] = 133 /\ image0 = 1 /\ TotalCalls = 2
    /\ \E x \in seen : x[1] = loc[t].fout_Hz

\* C8: with serialized callers there is never a corrupted state: registers
\* 26..33 hold the eight bytes of one call's burst (or what they started
\* with), every transaction to register 26 carries such a burst, and the
\* output is never enabled (reg 3 = 0x00) while a call is still configuring.
\* Without serialization such a state is reachable (the witness).
MixedBurst == BurstRegs(regs) \notin bursts \cup {BurstRegs(ImageOf(image0))}

BadBurstTransaction ==
  \E t \in Tasks : \E i \in 1..Len(log[t]) :
    IsWrite(log[t][i]) /\ log[t][i].reg = 26 /\ log[t][i].data \notin bursts

EnabledWhileConfiguring == \E t \in Tasks : Configuring(t) /\ regs[3] = 0

Corrupted == MixedBurst \/ BadBurstTransaction \/ EnabledWhileConfiguring

C8_SerializedIsSafe == serialized => ~Corrupted

\* two invocations overlap; one has enabled the output while the other, whose
\* feedback burst never reached the device whole, is still configuring
C8_Witness ==
  /\ ~serialized
  /\ \E t \in Tasks :
       /\ Configuring(t) /\ regs[3] = 0 /\ pc[t] = 124
       /\ Writes(t)[Len(Writes(t))] # W8(26, FeedbackBytes(loc[t].MSNA_P1,
                                                           loc[t].MSNA_P2,
                                                           loc[t].MSNA_P3))

\* C9: within a call, from its second write (reg 3 = 0xFF) until its last
\* the output enable register holds 0xFF; the phases of its writes never go
\* back (Disabled, Configuring, PLL-Resetting, Enabled); the PLL reset comes
\* after every write to a configuration register; and reg 3 = 0x00 is
\* written only by the call's last write, after the PLL reset.
C9_Unidirectional ==
  \A t \in Tasks :
    LET w == Writes(t)
    IN  /\ Configuring(t) => regs[3] = 255
        /\ Len(w) >= 2 => w[2] = W1(3, 255)
        /\ \A i, j \in 1..Len(w) : i < j => Phase(w[i]) <= Phase(w[j])
        /\ \A i \in 1..Len(w) :
             /\ Phase(w[i]) = 4 =>
                  /\ pc[t] = 133 /\ i = Len(w)
                  /\ \E j \in 1..(i - 1) : Phase(w[j]) = 3
             /\ Phase(w[i]) = 3 =>
                  /\ \A r \in {15, 183, 42, 26, 16} : \E j \in 1..(i - 1) : w[j].reg = r
                  /\ \A j \in 1..Len(w) :
                       (w[j].reg \in ConfigRegs \ {177}) => j < i
        /\ pc[t] = 133 => Phase(w[Len(w)]) = 4 /\ regs[3] = 0

C9_Witness ==
  \E t \in Tasks :
    pc[t] = 133 /\ regs[3] = 0 /\ \E i \in 1..Len(Writes(t)) : Writes(t)[i].reg = 177

\* C10: the feedback multisynth burst is one transaction of 8 data bytes
\* starting at register 26; for P1 < 2^18, P2 < 2^20, P3 < 2^20 its bytes are
\* P3[15:8], P3[7:0], P1[17:16] (upper 6 bits zero), P1[15:8], P1[7:0],
\* P3[19:16] and P2[19:16] in the high and the low nibble, P2[15:8], P2[7:0],
\* and the fields read back from the eight bytes are P1, P2 and P3.
C10_BurstLayout ==
  \A t \in Tasks : \A i \in 1..Len(log[t]) :
    (IsWrite(log[t][i]) /\ log[t][i].reg = 26) =>
      LET d  == log[t][i].data
          P1 == BigToInt(loc[t].MSNA_P1)
          P2 == BigToInt(loc[t].MSNA_P2)
          P3 == BigToInt(loc[t].MSNA_P3)
      IN  /\ Len(d) = 8
          /\ Cardinality({j \in 1..Len(log[t]) : log[t][j].reg = 26}) = 1
          /\ (P1 < 2^18 /\ P2 < 2^20 /\ P3 < 2^20) =>
               /\ d[1] = (P3 \div 256) % 256
               /\ d[2] = P3 % 256
               /\ d[3] = P1 \div 65536 /\ d[3] < 4
               /\ d[4] = (P1 \div 256) % 256
               /\ d[5] = P1 % 256
               /\ d[6] = 16 * (P3 \div 65536) + (P2 \div 65536)
               /\ d[7] = (P2 \div 256) % 256
               /\ d[8] = P2 % 256
               /\ Reassemble(d) = [P1 |-> P1, P2 |-> P2, P3 |-> P3]
               /\ BurstRegs(regs) = d

C10_Witness ==
  \E t \in Tasks :
    /\ loc[t].MSNA_P1 = BigOfInt(174762) /\ loc[t].MSNA_P2 = BigOfInt(349525)
    /\ loc[t].MSNA_P3 = BigOfInt(2^20 - 1)
    /\ \E i \in 1..Len(log[t]) :
         log[t][i] = W8(26, <<255, 255, 2, 170, 170, 245, 85, 85>>)

====
